---- MODULE Spec2Model ----
(***************************************************************************)
(* Model of the two scripts of fast-note-sync-service:                      *)
(*   scripts/translate_support.py  (ad-hoc translation utility)            *)
(*   scripts/process_support.py    (batch report generator)                *)
(* Python values are records [t, s, items]; a str is its sequence of       *)
(* one-character strings.  The translation backend (deep_translator) is    *)
(* the environment: every call either raises or returns values drawn from  *)
(* ReplySet.                                                               *)
(***************************************************************************)
EXTENDS Integers, Sequences, FiniteSets, TLC

\* ------------------------------------------------------------------ bounds
MaxTexts == 3
MaxRows == 2

\* ----------------------------------------------------------- Python values
NL == "\n"
PyStr(s) == [t |-> "str", s |-> s, items |-> <<>>]
PyAtom(tok) == [t |-> "atom", s |-> <<tok>>, items |-> <<>>]
PyList(xs) == [t |-> "list", s |-> <<>>, items |-> xs]
PyDict(kvs) == [t |-> "dict", s |-> <<>>, items |-> kvs]
PyNone == PyAtom("null")
PyTrue == PyAtom("true")
PyZero == PyAtom("0")
PyFive == PyAtom("5")

EMPTY == <<>>
DASH == <<"-">>
SPACE == <<" ">>

\* bool(v)
Truthy(v) ==
    CASE v.t = "str" -> v.s # <<>>
      [] v.t = "list" -> v.items # <<>>
      [] v.t = "dict" -> v.items # <<>>
      [] OTHER -> v.s \notin {<<"null">>, <<"false">>, <<"0">>}

IsWs(c) == c \in {" ", NL, "\t"}

RECURSIVE LStrip(_)
LStrip(s) == IF s # <<>> /\ IsWs(Head(s)) THEN LStrip(Tail(s)) ELSE s

RECURSIVE RStrip(_)
RStrip(s) ==
    IF s # <<>> /\ IsWs(s[Len(s)]) THEN RStrip(SubSeq(s, 1, Len(s) - 1)) ELSE s

\* str.strip()
Strip(s) == RStrip(LStrip(s))

\* dict keys in insertion order (items alternate key, value)
DictKeys(kvs) == [i \in 1..(Len(kvs) \div 2) |-> kvs[2 * i - 1]]

\* iter(v): what enumerate(v) / list(v) walk over
Iterable(v) == v.t \in {"list", "str", "dict"}
IterItems(v) ==
    CASE v.t = "list" -> v.items
      [] v.t = "str" -> [i \in 1..Len(v.s) |-> PyStr(<<v.s[i]>>)]
      [] v.t = "dict" -> DictKeys(v.items)
      [] OTHER -> <<>>

RECURSIVE Flatten(_)
Flatten(ss) == IF ss = <<>> THEN <<>> ELSE Head(ss) \o Flatten(Tail(ss))

RECURSIVE JoinWith(_, _)
JoinWith(ss, sep) ==
    IF ss = <<>> THEN <<>>
    ELSE IF Len(ss) = 1 THEN ss[1]
    ELSE ss[1] \o sep \o JoinWith(Tail(ss), sep)

EscapeChar(c) ==
    CASE c = "\"" -> <<"\\", "\"">>
      [] c = "\\" -> <<"\\", "\\">>
      [] c = NL -> <<"\\", "n">>
      [] OTHER -> <<c>>

\* json.dumps(v) with the default separators
RECURSIVE Dumps(_)
Dumps(v) ==
    CASE v.t = "str" ->
            <<"\"">> \o Flatten([i \in 1..Len(v.s) |-> EscapeChar(v.s[i])]) \o <<"\"">>
      [] v.t = "list" ->
            <<"[">> \o JoinWith([i \in 1..Len(v.items) |-> Dumps(v.items[i])], <<",", " ">>) \o <<"]">>
      [] v.t = "dict" ->
            <<"{">> \o JoinWith([i \in 1..(Len(v.items) \div 2) |->
                          Dumps(v.items[2 * i - 1]) \o <<":", " ">> \o Dumps(v.items[2 * i])],
                        <<",", " ">>) \o <<"}">>
      [] OTHER -> v.s

\* ------------------------------------------------------------ the backend
X == <<"x">>
\* what a translate call may hand back for one text: nothing useful, or a text
ReplySet == {PyStr(EMPTY), PyStr(X)}

RECURSIVE SeqsOfLen(_, _)
SeqsOfLen(S, n) ==
    IF n = 0 THEN {<<>>}
    ELSE {Append(q, e) : q \in SeqsOfLen(S, n - 1), e \in S}

SeqsUpTo(S, n) == UNION {SeqsOfLen(S, k) : k \in 0..n}

\* =========================================================================
\* scripts/translate_support.py
\* =========================================================================
VARIABLES tpc, argc, arg_is_file, parsed, target, texts, to_translate,
          mapping_indices, results, seqPos, stdout, stderr, calls, replied

tvars == <<tpc, argc, arg_is_file, parsed, target, texts, to_translate,
           mapping_indices, results, seqPos, stdout, stderr, calls, replied>>

VARIABLES ppc, csv_exists, csv_rows, data, unique_texts, lang_i, t_map,
          jsonFile, mdFile, mdCells, writes, pcalls, pstdout, pstderr

pvars == <<ppc, csv_exists, csv_rows, data, unique_texts, lang_i, t_map,
           jsonFile, mdFile, mdCells, writes, pcalls, pstdout, pstderr>>

vars == <<tvars, pvars>>

\* ------------------------------------- configuration of process_support.py
\* lines 13-21 (ordered as the dict is); the CSV column labels are opaque
KEY_MAP ==
    << <<"cn_time", "time">>, <<"cn_item", "item">>, <<"cn_amount", "amount">>,
       <<"cn_unit", "unit">>, <<"cn_message", "message">>, <<"cn_name", "name">>,
       <<"cn_note", "note">> >>
CnKeys == {KEY_MAP[i][1] : i \in 1..Len(KEY_MAP)}
EnKeys == {KEY_MAP[i][2] : i \in 1..Len(KEY_MAP)}
TranslatedKeys == {"cn_item", "cn_message", "cn_note"}
PlaceholderKeys == {"cn_message", "cn_note"}

\* lines 24-30: dict order of LANG_CONFIG, and the labels each locale uses
LangOrder == <<"en", "zh-CN", "zh-TW", "ja", "ko">>
Langs == {LangOrder[i] : i \in 1..Len(LangOrder)}
LANG_CONFIG ==
    [l \in Langs |->
        [md_title |-> "title:" \o l,
         md_headers |-> [c \in 1..6 |-> <<"header:" \o l>>],
         md_footer |-> "footer:" \o l]]
\* line 121
MdLangs == {"zh-CN", "zh-TW", "en"}
NativeLang == "zh-CN"

\* a docs/Support.<locale>.* file that this run has not written
NoJson == [written |-> FALSE, content |-> <<>>]
NoMd == [written |-> FALSE, content |-> <<>>]

TextPool == {EMPTY, DASH, SPACE, <<"a">>, <<"-", " ">>}
Targets == {"en", "zh-TW"}

\* JSON documents that are not arrays of strings
OddInputs ==
    { PyFive, PyZero, PyNone, PyTrue, PyStr(<<"a", "-">>), PyStr(EMPTY),
      PyDict(<<PyStr(<<"a">>), PyFive>>), PyDict(<<>>),
      PyList(<<PyFive>>), PyList(<<PyNone, PyStr(<<"a">>)>>) }

StringArrays == {PyList([i \in 1..Len(q) |-> PyStr(q[i])]) : q \in SeqsUpTo(TextPool, MaxTexts)}

\* the outcome of json.load / json.loads on the first argument
ParseOutcomes ==
    {[ok |-> FALSE, val |-> PyNone]} \cup {[ok |-> TRUE, val |-> v] : v \in StringArrays \cup OddInputs}

NoArgs == [ok |-> FALSE, val |-> PyNone]

TInit ==
    /\ tpc = "start"
    /\ argc \in {2, 3}
    /\ arg_is_file \in BOOLEAN
    /\ parsed \in ParseOutcomes
    /\ target \in Targets
    /\ argc < 3 => (parsed = NoArgs /\ arg_is_file = FALSE /\ target = "en")
    /\ (~parsed.ok \/ parsed.val \in OddInputs) => target = "en"
    /\ texts = PyList(<<>>)
    /\ to_translate = <<>>
    /\ mapping_indices = <<>>
    /\ results = <<>>
    /\ seqPos = 0
    /\ stdout = <<>>
    /\ stderr = <<>>
    /\ calls = <<>>
    /\ replied = <<>>
    \* process_support.py is not running
    /\ ppc = "idle" /\ csv_exists = FALSE /\ csv_rows = <<>> /\ data = <<>>
    /\ unique_texts = {} /\ lang_i = 0 /\ t_map = <<>>
    /\ jsonFile = [l \in Langs |-> NoJson] /\ mdFile = [l \in Langs |-> NoMd]
    /\ mdCells = [l \in Langs |-> <<>>] /\ writes = <<>> /\ pcalls = <<>>
    /\ pstdout = <<>> /\ pstderr = <<>>

WriteStdout(line) == stdout' = Append(stdout, line)
WriteStderr(tag) == stderr' = Append(stderr, tag)

\* lines 8-10
T_Args ==
    /\ tpc = "start"
    /\ IF argc < 3
       THEN /\ WriteStdout(Dumps(PyList(<<>>)))
            /\ tpc' = "done"
       ELSE /\ tpc' = "parse"
            /\ UNCHANGED stdout
    /\ UNCHANGED <<argc, arg_is_file, parsed, target, texts, to_translate,
                   mapping_indices, results, seqPos, stderr, calls, replied>>
    /\ UNCHANGED pvars

\* lines 15-31
T_Parse ==
    /\ tpc = "parse"
    /\ IF ~parsed.ok
       THEN /\ WriteStderr("Input Error")
            /\ WriteStdout(Dumps(PyList(<<>>)))
            /\ tpc' = "done"
            /\ UNCHANGED texts
       ELSE /\ texts' = parsed.val
            /\ UNCHANGED stderr
            /\ IF ~Truthy(parsed.val)
               THEN /\ WriteStdout(Dumps(PyList(<<>>)))
                    /\ tpc' = "done"
               ELSE /\ tpc' = "construct"
                    /\ UNCHANGED stdout
    /\ UNCHANGED <<argc, arg_is_file, parsed, target, to_translate,
                   mapping_indices, results, seqPos, calls, replied>>
    /\ UNCHANGED pvars

\* the test of line 44 applied to the raw text, without strip()
NeedsTranslation_NoStrip(text) ==
    LET clean_text == IF Truthy(text) THEN text.s ELSE EMPTY
    IN clean_text # EMPTY /\ clean_text # DASH

\* lines 43-44: clean_text and the test on it
NeedsTranslation(text) ==
    LET clean_text == IF Truthy(text) THEN Strip(text.s) ELSE EMPTY
    IN clean_text # EMPTY /\ clean_text # DASH

\* text.strip() raises AttributeError on a truthy non-str
StripRaises(text) == Truthy(text) /\ text.t # "str"

\* lines 40-46
RECURSIVE Collect(_, _)
Collect(items, i) ==
    IF i > Len(items) THEN <<>>
    ELSE IF NeedsTranslation(items[i]) THEN <<i>> \o Collect(items, i + 1)
    ELSE Collect(items, i + 1)

PreprocessRaises(v) ==
    \/ ~Iterable(v)
    \/ \E i \in 1..Len(IterItems(v)) : StripRaises(IterItems(v)[i])

\* lines 69-71
OuterExcept ==
    /\ WriteStderr("Execution Error")
    /\ WriteStdout(Dumps(texts))
    /\ tpc' = "done"

\* lines 34-50, 67
T_Construct ==
    /\ tpc = "construct"
    /\ \E raises \in BOOLEAN :
        /\ calls' = Append(calls, [op |-> "construct", target |-> target, ok |-> ~raises, arg |-> <<>>])
        /\ IF raises \/ PreprocessRaises(texts)
           THEN /\ OuterExcept
                /\ UNCHANGED <<to_translate, mapping_indices, results>>
           ELSE LET items == IterItems(texts)
                    idx == Collect(items, 1)
                IN /\ mapping_indices' = idx
                   /\ to_translate' = [k \in 1..Len(idx) |-> items[idx[k]]]
                   /\ results' = items
                   /\ IF idx = <<>>
                      THEN /\ WriteStdout(Dumps(PyList(items)))
                           /\ tpc' = "done"
                      ELSE /\ tpc' = "batch"
                           /\ UNCHANGED stdout
                   /\ UNCHANGED stderr
    /\ UNCHANGED <<argc, arg_is_file, parsed, target, texts, seqPos, replied>>
    /\ UNCHANGED pvars

\* line 55 / line 62
KeepOrOriginal(translated, original) == IF Truthy(translated) THEN translated ELSE original

\* lines 54-55
ApplyBatch(res, idx, translated_list) ==
    [i \in 1..Len(res) |->
        IF \E k \in 1..Len(idx) : idx[k] = i
        THEN LET k == CHOOSE k \in 1..Len(idx) : idx[k] = i
             IN KeepOrOriginal(translated_list[k], IterItems(texts)[i])
        ELSE res[i]]

\* lines 50-58, 67
T_Batch ==
    /\ tpc = "batch"
    /\ \/ \E translated_list \in SeqsOfLen(ReplySet, Len(to_translate)) :
            /\ calls' = Append(calls, [op |-> "batch", target |-> target, ok |-> TRUE, arg |-> mapping_indices])
            /\ replied' = replied \o [k \in 1..Len(mapping_indices) |-> <<mapping_indices[k], translated_list[k]>>]
            /\ results' = ApplyBatch(results, mapping_indices, translated_list)
            /\ WriteStdout(Dumps(PyList(results')))
            /\ tpc' = "done"
            /\ UNCHANGED <<stderr, seqPos>>
       \/ /\ calls' = Append(calls, [op |-> "batch", target |-> target, ok |-> FALSE, arg |-> mapping_indices])
          /\ WriteStderr("Batch failed")
          /\ seqPos' = 1
          /\ tpc' = "sequential"
          /\ UNCHANGED <<results, stdout, replied>>
    /\ UNCHANGED <<argc, arg_is_file, parsed, target, texts, to_translate, mapping_indices>>
    /\ UNCHANGED pvars

\* the fallback loop leaving at the first failing single translation
T_Sequential_AbortOnFail ==
    /\ tpc = "sequential"
    /\ seqPos <= Len(mapping_indices)
    /\ LET idx == mapping_indices[seqPos]
           text == to_translate[seqPos]
       IN \/ \E res \in ReplySet :
               /\ calls' = Append(calls, [op |-> "translate", target |-> target, ok |-> TRUE, arg |-> <<idx>>])
               /\ replied' = Append(replied, <<idx, res>>)
               /\ results' = [results EXCEPT ![idx] = KeepOrOriginal(res, text)]
               /\ seqPos' = seqPos + 1
          \/ /\ calls' = Append(calls, [op |-> "translate", target |-> target, ok |-> FALSE, arg |-> <<idx>>])
             /\ seqPos' = Len(mapping_indices) + 1
             /\ UNCHANGED <<results, replied>>
    /\ UNCHANGED <<tpc, argc, arg_is_file, parsed, target, texts, to_translate,
                   mapping_indices, stdout, stderr>>
    /\ UNCHANGED pvars

\* lines 59-64, one iteration
T_Sequential ==
    /\ tpc = "sequential"
    /\ seqPos <= Len(mapping_indices)
    /\ LET idx == mapping_indices[seqPos]
           text == to_translate[seqPos]
       IN \/ \E res \in ReplySet :
               /\ calls' = Append(calls, [op |-> "translate", target |-> target, ok |-> TRUE, arg |-> <<idx>>])
               /\ replied' = Append(replied, <<idx, res>>)
               /\ results' = [results EXCEPT ![idx] = KeepOrOriginal(res, text)]
          \/ /\ calls' = Append(calls, [op |-> "translate", target |-> target, ok |-> FALSE, arg |-> <<idx>>])
             /\ UNCHANGED <<results, replied>>
    /\ seqPos' = seqPos + 1
    /\ UNCHANGED <<tpc, argc, arg_is_file, parsed, target, texts, to_translate,
                   mapping_indices, stdout, stderr>>
    /\ UNCHANGED pvars

\* line 67 after the fallback loop
T_Output ==
    /\ tpc = "sequential"
    /\ seqPos > Len(mapping_indices)
    /\ WriteStdout(Dumps(PyList(results)))
    /\ tpc' = "done"
    /\ UNCHANGED <<argc, arg_is_file, parsed, target, texts, to_translate,
                   mapping_indices, results, seqPos, stderr, calls, replied>>
    /\ UNCHANGED pvars

TNext == T_Args \/ T_Parse \/ T_Construct \/ T_Batch \/ T_Sequential \/ T_Output


\* =========================================================================
\* scripts/process_support.py
\* =========================================================================

\* ------------------------------------------------------------- the ledger
A == <<"a">>
M == <<"m", NL, "n">>
ItemPool == {PyStr(A), PyStr(SPACE)}
MessagePool == {PyStr(EMPTY), PyStr(DASH), PyStr(A), PyStr(M)}
\* a row shorter than the header leaves its last column None
NotePool == {PyNone}
Digits == <<"1", "2", "3", "4", "5", "6", "7", "8", "9">>

LedgerRow(i, item, message, note) ==
    [k \in CnKeys |->
        CASE k = "cn_time" -> PyStr(<<Digits[i]>>)
          [] k = "cn_item" -> item
          [] k = "cn_amount" -> PyStr(<<"5">>)
          [] k = "cn_unit" -> PyStr(<<"$">>)
          [] k = "cn_message" -> message
          [] k = "cn_name" -> PyStr(<<"n">>)
          [] k = "cn_note" -> note]

RowChoices == ItemPool \X MessagePool \X NotePool
Ledgers ==
    {[i \in 1..Len(q) |-> LedgerRow(i, q[i][1], q[i][2], q[i][3])] : q \in SeqsUpTo(RowChoices, MaxRows)}


PInit ==
    /\ ppc = "start"
    /\ csv_exists \in BOOLEAN
    /\ csv_rows \in Ledgers
    /\ ~csv_exists => csv_rows = <<>>
    /\ data = <<>>
    /\ unique_texts = {}
    /\ lang_i = 0
    /\ t_map = <<>>
    /\ jsonFile = [l \in Langs |-> NoJson]
    /\ mdFile = [l \in Langs |-> NoMd]
    /\ mdCells = [l \in Langs |-> <<>>]
    /\ writes = <<>>
    /\ pcalls = <<>>
    /\ pstdout = <<>>
    /\ pstderr = <<>>
    \* translate_support.py is not running
    /\ tpc = "idle" /\ argc = 0 /\ arg_is_file = FALSE /\ parsed = NoArgs
    /\ target = "en" /\ texts = PyList(<<>>) /\ to_translate = <<>>
    /\ mapping_indices = <<>> /\ results = <<>> /\ seqPos = 0
    /\ stdout = <<>> /\ stderr = <<>> /\ calls = <<>> /\ replied = <<>>

\* dict.get(k, default)
DictGet(d, k, default) == IF k \in DOMAIN d THEN d[k] ELSE default

\* lines 107-109
RowTexts(row) ==
    {DictGet(row, k, PyStr(EMPTY)) : k \in {k \in TranslatedKeys :
        Truthy(DictGet(row, k, PyNone)) /\ DictGet(row, k, PyNone) # PyStr(DASH)}}

UniqueTexts(rows) == UNION {RowTexts(rows[i]) : i \in 1..Len(rows)}

\* lines 96-98
P_Start ==
    /\ ppc = "start"
    /\ IF ~csv_exists
       THEN /\ pstdout' = Append(pstdout, "Error: not found")
            /\ ppc' = "aborted"
       ELSE /\ ppc' = "read"
            /\ UNCHANGED pstdout
    /\ UNCHANGED <<csv_exists, csv_rows, data, unique_texts, lang_i, t_map,
                   jsonFile, mdFile, mdCells, writes, pcalls, pstderr>>
    /\ UNCHANGED tvars

\* the except branch of lines 110-112 falling through to the locale loop
P_ReadCsv_NoReturn ==
    /\ ppc = "read"
    /\ \E n \in 0..Len(csv_rows), raises \in BOOLEAN :
        /\ ~raises => n = Len(csv_rows)
        /\ data' = SubSeq(csv_rows, 1, n)
        /\ unique_texts' = UniqueTexts(SubSeq(csv_rows, 1, n))
        /\ pstdout' = IF raises THEN Append(pstdout, "Error reading CSV") ELSE pstdout
        /\ ppc' = "translate"
        /\ lang_i' = 1
    /\ UNCHANGED <<csv_exists, csv_rows, t_map, jsonFile, mdFile, mdCells,
                   writes, pcalls, pstderr>>
    /\ UNCHANGED tvars

\* lines 100-114: the reader may raise after n rows have been taken
P_ReadCsv ==
    /\ ppc = "read"
    /\ \E n \in 0..Len(csv_rows), raises \in BOOLEAN :
        /\ ~raises => n = Len(csv_rows)
        /\ data' = SubSeq(csv_rows, 1, n)
        /\ unique_texts' = UniqueTexts(SubSeq(csv_rows, 1, n))
        /\ IF raises
           THEN /\ pstdout' = Append(pstdout, "Error reading CSV")
                /\ ppc' = "aborted"
                /\ UNCHANGED lang_i
           ELSE /\ ppc' = "translate"
                /\ lang_i' = 1
                /\ UNCHANGED pstdout
    /\ UNCHANGED <<csv_exists, csv_rows, t_map, jsonFile, mdFile, mdCells,
                   writes, pcalls, pstderr>>
    /\ UNCHANGED tvars

Lang == LangOrder[lang_i]
Identity(txts) == [x \in txts |-> x]

\* line 34 without the native-language test
SkipsBackend_NoNative(txts, target_lang) == txts = {}

\* line 34
SkipsBackend(txts, target_lang) == txts = {} \/ target_lang = NativeLang

\* line 38
ToTranslate(txts) ==
    {x \in txts : Truthy(x) /\ Strip(x.s) # EMPTY /\ Strip(x.s) # DASH}

\* lines 44-45
Translated(txts, reply) == [x \in txts |-> DictGet(reply, x, x)]

\* lines 117-118, 32-48
P_Translate ==
    /\ ppc = "translate"
    /\ pstdout' = Append(pstdout, "Processing " \o Lang)
    /\ IF SkipsBackend(unique_texts, Lang)
       THEN /\ t_map' = Identity(unique_texts)
            /\ ppc' = "json"
            /\ UNCHANGED <<pcalls, pstderr>>
       ELSE \/ /\ pcalls' = Append(pcalls, [op |-> "construct", lang |-> Lang, ok |-> FALSE])
               /\ ppc' = "crashed"
               /\ UNCHANGED <<t_map, pstderr>>
            \/ /\ ToTranslate(unique_texts) = {}
               /\ pcalls' = Append(pcalls, [op |-> "construct", lang |-> Lang, ok |-> TRUE])
               /\ t_map' = Identity(unique_texts)
               /\ ppc' = "json"
               /\ UNCHANGED pstderr
            \/ /\ ToTranslate(unique_texts) # {}
               /\ \E reply \in [ToTranslate(unique_texts) -> ReplySet] :
                    /\ pcalls' = pcalls \o << [op |-> "construct", lang |-> Lang, ok |-> TRUE],
                                             [op |-> "batch", lang |-> Lang, ok |-> TRUE] >>
                    /\ t_map' = Translated(unique_texts, reply)
               /\ ppc' = "json"
               /\ UNCHANGED pstderr
            \/ /\ ToTranslate(unique_texts) # {}
               /\ pcalls' = pcalls \o << [op |-> "construct", lang |-> Lang, ok |-> TRUE],
                                        [op |-> "batch", lang |-> Lang, ok |-> FALSE] >>
               /\ pstderr' = Append(pstderr, "Translation failed: " \o Lang)
               /\ t_map' = Identity(unique_texts)
               /\ ppc' = "json"
    /\ UNCHANGED <<csv_exists, csv_rows, data, unique_texts, lang_i,
                   jsonFile, mdFile, mdCells, writes>>
    /\ UNCHANGED tvars

\* lines 56-60, one field of one row
JsonField(row, cn_key, translation_map) ==
    LET raw == DictGet(row, cn_key, PyStr(EMPTY))
        val == IF cn_key \in TranslatedKeys /\ Truthy(raw) /\ raw # PyStr(DASH)
               THEN DictGet(translation_map, raw, raw)
               ELSE raw
    IN IF Truthy(val) THEN val
       ELSE IF cn_key \in PlaceholderKeys THEN PyStr(DASH) ELSE val

\* lines 53-61
JsonRow(row, translation_map) ==
    [en \in EnKeys |->
        LET cn == KEY_MAP[CHOOSE i \in 1..Len(KEY_MAP) : KEY_MAP[i][2] = en][1]
        IN JsonField(row, cn, translation_map)]

OutputData(rows, translation_map) ==
    [i \in 1..Len(rows) |-> JsonRow(rows[i], translation_map)]

\* str(v) inside an f-string
Fmt(v) == IF v.t = "str" THEN v.s ELSE IF v = PyNone THEN <<"N", "o", "n", "e">> ELSE v.s

\* lines 81 / 83 with the emptiness test dropped
MdText_NoEmptyTest(v, translation_map) ==
    IF v # PyStr(DASH) THEN DictGet(translation_map, v, v) ELSE PyStr(DASH)

\* lines 81 / 83
MdText(v, translation_map) ==
    IF Truthy(v) /\ v # PyStr(DASH) THEN DictGet(translation_map, v, v) ELSE PyStr(DASH)

\* lines 76-83: the six values formatted into one table line
MdRowCells(row, translation_map) ==
    LET item == DictGet(row, "cn_item", PyStr(EMPTY))
    IN << Fmt(DictGet(row, "cn_time", PyStr(EMPTY))),
          Fmt(DictGet(translation_map, item, item)),
          <<"*", "*">> \o Fmt(DictGet(row, "cn_unit", PyStr(EMPTY)))
                      \o Fmt(DictGet(row, "cn_amount", PyStr(EMPTY))) \o <<"*", "*">>,
          Fmt(DictGet(row, "cn_name", PyStr(EMPTY))),
          Fmt(MdText(DictGet(row, "cn_message", PyStr(EMPTY)), translation_map)),
          Fmt(MdText(DictGet(row, "cn_note", PyStr(EMPTY)), translation_map)) >>

\* line 85 (and lines 72-73): "| c1 | c2 | ... |\n"
TableLine(cells) == <<"|", " ">> \o JoinWith(cells, <<" ", "|", " ">>) \o <<" ", "|", NL>>

\* lines 71-73, 85-88: the document around the formatted row values
MdPage(lang_code, cellRows) ==
    LET conf == LANG_CONFIG[lang_code]
    IN <<"#", " ", conf.md_title, NL, NL>>
       \o TableLine(conf.md_headers)
       \o TableLine([c \in 1..Len(conf.md_headers) |-> <<":---">>])
       \o Flatten([i \in 1..Len(cellRows) |-> TableLine(cellRows[i])])
       \o <<NL, NL, "-", "-", "-", " ", NL, "*", conf.md_footer, "<timestamp>", "*">>

\* lines 68-88
MdDocument(rows, lang_code, translation_map) ==
    MdPage(lang_code, [i \in 1..Len(rows) |-> MdRowCells(rows[i], translation_map)])

NextLocale ==
    IF lang_i < Len(LangOrder)
    THEN /\ lang_i' = lang_i + 1
         /\ ppc' = "translate"
    ELSE /\ ppc' = "done"
         /\ UNCHANGED lang_i

\* lines 119, 50-66
P_GenerateJson ==
    /\ ppc = "json"
    /\ jsonFile' = [jsonFile EXCEPT ![Lang] = [written |-> TRUE, content |-> OutputData(data, t_map)]]
    /\ writes' = Append(writes, "Support." \o Lang \o ".json")
    /\ pstdout' = Append(pstdout, "Saved JSON " \o Lang)
    /\ IF Lang \in MdLangs
       THEN /\ ppc' = "md"
            /\ UNCHANGED lang_i
       ELSE NextLocale
    /\ UNCHANGED <<csv_exists, csv_rows, data, unique_texts, t_map, mdFile,
                   mdCells, pcalls, pstderr>>
    /\ UNCHANGED tvars

\* lines 121-122, 68-92
P_GenerateMd ==
    /\ ppc = "md"
    /\ mdFile' = [mdFile EXCEPT ![Lang] = [written |-> TRUE, content |-> MdDocument(data, Lang, t_map)]]
    /\ mdCells' = [mdCells EXCEPT ![Lang] = [i \in 1..Len(data) |-> MdRowCells(data[i], t_map)]]
    /\ writes' = Append(writes, "Support." \o Lang \o ".md")
    /\ NextLocale
    /\ UNCHANGED <<csv_exists, csv_rows, data, unique_texts, t_map, jsonFile,
                   pcalls, pstdout, pstderr>>
    /\ UNCHANGED tvars

PNext == P_Start \/ P_ReadCsv \/ P_Translate \/ P_GenerateJson \/ P_GenerateMd

SpecTranslate == TInit /\ [][TNext]_vars
SpecProcess == PInit /\ [][PNext]_vars

\* ---------------------------------------------------------------- claims
InputIsStringArray == argc >= 3 /\ parsed.ok /\ parsed.val \in StringArrays
Input == parsed.val.items
PassThrough(s) == Strip(s) = EMPTY \/ s = DASH
RepliesAt(i) == {replied[k][2] : k \in {k \in 1..Len(replied) : replied[k][1] = i}}
SingleCalls == SelectSeq(calls, LAMBDA c : c.op = "translate")
BatchCalls == SelectSeq(calls, LAMBDA c : c.op = "batch")
IsJsonArrayText(line) == Len(line) >= 2 /\ line[1] = "[" /\ line[Len(line)] = "]"

\* C1: for an input array of strings, whatever the backend does, the printed
\* array has the input's length, position i holds input[i] or a backend
\* translation of input[i], and every empty, whitespace-only or "-" entry is
\* unchanged at its position.
C1_OutputAligned ==
    (tpc = "done" /\ InputIsStringArray) =>
        \E out \in [1..Len(Input) -> UNION {{Input[i]} \cup RepliesAt(i) : i \in 1..Len(Input)}] :
            /\ stdout = <<Dumps(PyList(out))>>
            /\ \A i \in 1..Len(Input) :
                  /\ out[i] \in {Input[i]} \cup RepliesAt(i)
                  /\ PassThrough(Input[i].s) => out[i] = Input[i]

C1_Witness ==
    /\ tpc = "done" /\ InputIsStringArray /\ Len(Input) = 3
    /\ Input[1] = PyStr(SPACE) /\ Input[3] = PyStr(DASH) /\ Input[2] = PyStr(<<"a">>)
    /\ stdout = <<Dumps(PyList(<<PyStr(SPACE), PyStr(X), PyStr(DASH)>>))>>

\* C2: on every execution path exactly one line is printed to standard
\* output and that line is a serialized JSON array.
C2_OneArrayLine ==
    tpc = "done" => (Len(stdout) = 1 /\ IsJsonArrayText(stdout[1]))

RECURSIVE SplitLines(_)
SplitLines(text) ==
    IF \A k \in 1..Len(text) : text[k] # NL THEN <<text>>
    ELSE LET k == CHOOSE k \in 1..Len(text) :
                    text[k] = NL /\ \A j \in 1..(k - 1) : text[j] # NL
         IN <<SubSeq(text, 1, k - 1)>> \o SplitLines(SubSeq(text, k + 1, Len(text)))

\* the table's data rows: the lines after the heading, its blank line, the
\* header row and the separator row, up to the first blank line
MdDataRows(text) ==
    LET ls == SplitLines(text)
        n == CHOOSE n \in 0..(Len(ls) - 4) :
                /\ \A j \in 1..n : ls[4 + j] # <<>>
                /\ (4 + n + 1 > Len(ls) \/ ls[4 + n + 1] = <<>>)
    IN SubSeq(ls, 5, 4 + n)

IsBlank(v) == ~Truthy(v) \/ v = PyStr(DASH)
RowCount == Len(csv_rows)
Json(l) == jsonFile[l].content
CallsFor(l) == SelectSeq(pcalls, LAMBDA c : c.lang = l)
\* the column of the Markdown table that shows a translatable field
MdColumn(cn) == CASE cn = "cn_item" -> 2 [] cn = "cn_message" -> 5 [] cn = "cn_note" -> 6
EnKey(cn) == KEY_MAP[CHOOSE i \in 1..Len(KEY_MAP) : KEY_MAP[i][1] = cn][2]
ReadErrorReported == \E k \in 1..Len(pstdout) : pstdout[k] \in {"Error reading CSV", "Error: not found"}

\* C4: once the ledger has been read, a JSON artifact is written for every
\* configured locale whichever backend calls fail (translator construction
\* included), and a locale whose backend call failed carries the untranslated
\* text.
C4_EveryLocaleWritten ==
    (ppc \in {"done", "crashed"}) =>
        \A l \in Langs :
            /\ jsonFile[l].written
            /\ (\E k \in 1..Len(pcalls) : pcalls[k].lang = l /\ ~pcalls[k].ok) =>
                  \A i \in 1..RowCount, cn \in TranslatedKeys :
                      Truthy(csv_rows[i][cn]) => Json(l)[i][EnKey(cn)] = csv_rows[i][cn]

\* C5: every generated artifact holds exactly one record / table data row per
\* CSV data row, in the CSV's order.
C5_OneRecordPerRow ==
    \A l \in Langs :
        /\ jsonFile[l].written =>
              /\ Len(Json(l)) = RowCount
              /\ \A i \in 1..RowCount : Json(l)[i]["time"] = csv_rows[i]["cn_time"]
        /\ mdFile[l].written =>
              /\ Len(MdDataRows(mdFile[l].content)) = RowCount
              /\ \A i \in 1..RowCount :
                    MdDataRows(mdFile[l].content)[i] = SubSeq(TableLine(mdCells[l][i]), 1, Len(TableLine(mdCells[l][i])) - 1)

\* C6: a message or note that is empty, absent or "-" in the input is shown
\* as "-" in the JSON and in the Markdown artifact of every locale, whatever
\* the backend returned or raised.
C6_PlaceholderKept ==
    \A l \in Langs :
        \A i \in 1..RowCount, cn \in PlaceholderKeys :
            IsBlank(csv_rows[i][cn]) =>
                /\ jsonFile[l].written => Json(l)[i][EnKey(cn)] = PyStr(DASH)
                /\ mdFile[l].written => mdCells[l][i][MdColumn(cn)] = DASH

C6_Witness ==
    /\ ppc = "done" /\ RowCount = 2
    /\ csv_rows[1]["cn_message"] = PyStr(EMPTY) /\ csv_rows[2]["cn_message"] = PyStr(DASH)
    /\ csv_rows[1]["cn_note"] = PyNone
    /\ Json("en")[1]["item"] = PyStr(X)
    /\ Json("en")[1]["message"] = PyStr(DASH) /\ Json("en")[1]["note"] = PyStr(DASH)
    /\ mdCells["en"][2][5] = DASH

\* C7 as stated: for the native locale the backend is never called and every
\* translatable field is shown byte-identical to its input text.
C7_NativeIdentical ==
    jsonFile[NativeLang].written =>
        /\ CallsFor(NativeLang) = <<>>
        /\ \A i \in 1..RowCount, cn \in TranslatedKeys :
              /\ Json(NativeLang)[i][EnKey(cn)] = csv_rows[i][cn]
              /\ mdFile[NativeLang].written =>
                    mdCells[NativeLang][i][MdColumn(cn)] = Fmt(csv_rows[i][cn])

\* C7 amended: for the native locale the backend is never called, every
\* non-empty translatable field is shown byte-identical to its input text,
\* and an empty or absent message or note is shown as "-".
C7_NativeIdenticalNonEmpty ==
    jsonFile[NativeLang].written =>
        /\ CallsFor(NativeLang) = <<>>
        /\ \A i \in 1..RowCount, cn \in TranslatedKeys :
              /\ Truthy(csv_rows[i][cn]) =>
                    /\ Json(NativeLang)[i][EnKey(cn)] = csv_rows[i][cn]
                    /\ mdFile[NativeLang].written =>
                          mdCells[NativeLang][i][MdColumn(cn)] = csv_rows[i][cn].s
              /\ (~Truthy(csv_rows[i][cn]) /\ cn \in PlaceholderKeys) =>
                    /\ Json(NativeLang)[i][EnKey(cn)] = PyStr(DASH)
                    /\ mdFile[NativeLang].written =>
                          mdCells[NativeLang][i][MdColumn(cn)] = DASH

C7_Witness ==
    /\ ppc = "done" /\ RowCount = 2
    /\ csv_rows[1]["cn_item"] = PyStr(A) /\ csv_rows[1]["cn_message"] = PyStr(M)
    /\ csv_rows[2]["cn_message"] = PyStr(EMPTY)
    /\ Json("en")[1]["item"] = PyStr(X)
    /\ Json(NativeLang)[1]["item"] = PyStr(A) /\ Json(NativeLang)[1]["message"] = PyStr(M)
    /\ mdCells[NativeLang][1][5] = M
    /\ Json(NativeLang)[2]["message"] = PyStr(DASH)

\* C8: within one run and locale a source string is shown as the same value
\* at every place it occurs, whatever the backend returned for it (an empty
\* translation included); the map comes from one batch call per locale.
C8_SameTextSameRendering ==
    \A l \in Langs :
        /\ Len(SelectSeq(CallsFor(l), LAMBDA c : c.op = "batch")) <= 1
        /\ \A i, j \in 1..RowCount, cn, cm \in TranslatedKeys :
              (csv_rows[i][cn] = csv_rows[j][cm] /\ ~IsBlank(csv_rows[i][cn])) =>
                  /\ jsonFile[l].written => Json(l)[i][EnKey(cn)] = Json(l)[j][EnKey(cm)]
                  /\ mdFile[l].written => mdCells[l][i][MdColumn(cn)] = mdCells[l][j][MdColumn(cm)]

\* C9: when the ledger is missing or reading it raises, the run aborts
\* before any backend call and any file write; in every run the first write
\* (and the first backend call) comes after the whole ledger has been read.
C9_NoOutputOnInputError ==
    /\ (ppc = "aborted" \/ ReadErrorReported) =>
          /\ writes = <<>> /\ pcalls = <<>>
          /\ \A l \in Langs : ~jsonFile[l].written /\ ~mdFile[l].written
    /\ (writes # <<>> \/ pcalls # <<>>) =>
          /\ csv_exists /\ data = csv_rows
          /\ ppc \in {"translate", "json", "md", "done", "crashed"}
    /\ (~csv_exists /\ ppc # "start") => ppc = "aborted"

C9_Witness ==
    /\ ppc = "aborted" /\ csv_exists /\ RowCount = 2 /\ Len(data) = 1
    /\ unique_texts # {}

\* C10: for every locale that gets both artifacts and every row, the item,
\* message and note shown in the Markdown row equal the same field of the
\* row's JSON record, for every translation map the backend can produce.
C10_MarkdownMatchesJson ==
    \A l \in MdLangs :
        (jsonFile[l].written /\ mdFile[l].written) =>
            \A i \in 1..RowCount, cn \in TranslatedKeys :
                mdCells[l][i][MdColumn(cn)] = Fmt(Json(l)[i][EnKey(cn)])
====
